---- MODULE Spec2Model ----
(***************************************************************************)
(* Entity Version Control System (EVCS) of backcast_evs: the generic       *)
(* version commands of app/core/versioning/commands.py acting on one table *)
(* of a branchable entity (app/models/domain/project.py), with the reads   *)
(* of app/core/versioning/branch_service.py.                               *)
(*                                                                         *)
(* A row is a function from column names to values.  Timestamps are the    *)
(* integers 1..MaxTime; NoTime stands for SQL NULL / an infinite bound.    *)
(* Ids are the integers 1..; NoId stands for NULL.  NoBranch stands for a  *)
(* NULL merge_from_branch.                                                 *)
(* Of the three business columns of Project (name, description, budget)   *)
(* the model keeps name and budget; description is copied and overridden  *)
(* by the same code path as name.  Commands executed at the same value of *)
(* now run in one transaction; Tick begins a later transaction.           *)
(*                                                                         *)
(* Further parts: the reads and the life cycle of TemporalService          *)
(* (app/core/versioning/service.py); the head / version commands of        *)
(* app/commands/department.py, user.py and user_preference.py with their   *)
(* undo methods; UpdateCommand and get_current run by concurrent sessions, *)
(* each in its own database transaction; and the derivation of the root    *)
(* field name from the entity type name at its five code sites.            *)
(***************************************************************************)
EXTENDS Integers, Sequences, FiniteSets, TLC

\* ---------------------------------------------------------------- bounds
MaxRows == 3
MaxTime == 2
MaxDeepRows == 4
MaxDeleted == 1
MaxTemporalRows == 3
MaxStamp == 3
MaxCmds == 3
MaxTxnRows == 4

\* ----------------------------------------------------------- value spaces
NoId == 0
NoTime == 0
NoBranch == "-"
Roots == {"r1", "r2"}
Branches == {"main", "feature"}
Names == {"A", "B"}
Budgets == {0, 1}

\* The columns of the projects table: EntityBase.id, the VersionableMixin
\* and BranchableMixin columns, the root id and the business columns.
Columns ==
    {"id", "valid_time", "transaction_time", "deleted_at", "branch",
     "parent_id", "merge_from_branch", "project_id", "name", "budget"}

BusinessColumns == {"name", "budget"}

VARIABLES
    rows,   \* the projects table: a sequence of rows in insertion order
    now,    \* current_timestamp of the transaction in progress
    last,   \* the command executed last: its arguments, locals and result
    heads,     \* the head table (department / user): the stored head ids
    versions,  \* the version table of the heads: a set of version rows
    cmds,      \* the head command objects made so far, in order of execute
    hlast,     \* the head command step taken last, and the tables before it
    txns,      \* the database transaction of each session
    entity_class,  \* the __name__ of the entity type a service or command has
    root_field     \* the root field name each code site derived from it

vars == <<rows, now, last>>

hvars == <<heads, versions, cmds, hlast>>

allvars == <<rows, now, last, heads, versions, cmds, hlast, txns>>

nvars == <<entity_class, root_field>>

\* ------------------------------------------------ PostgreSQL tstzrange
EmptyRange == [empty |-> TRUE, lo |-> NoTime, hi |-> NoTime]

\* tstzrange(lo, hi, '[)'): a NULL bound is infinite; equal bounds give the
\* empty range.
TstzRange(lo, hi) ==
    IF lo # NoTime /\ hi # NoTime /\ lo = hi
    THEN EmptyRange
    ELSE [empty |-> FALSE, lo |-> lo, hi |-> hi]

\* lower(r) / upper(r): NULL for the empty range and for an infinite bound.
Lower(r) == IF r.empty THEN NoTime ELSE r.lo
Upper(r) == IF r.empty THEN NoTime ELSE r.hi

\* r @> t
Contains(r, t) ==
    /\ ~r.empty
    /\ (r.lo = NoTime \/ r.lo <= t)
    /\ (r.hi = NoTime \/ t < r.hi)

\* upper_inf(r): the range is open-ended
OpenEnded(r) == ~r.empty /\ r.hi = NoTime

\* Range ordering a < b used by ORDER BY valid_time: the empty range sorts
\* first, then lower bounds (NULL = -infinity), then upper bounds
\* (NULL = +infinity).
RangeLess(a, b) ==
    IF a.empty \/ b.empty THEN a.empty /\ ~b.empty
    ELSE IF a.lo # b.lo THEN (a.lo = NoTime \/ (b.lo # NoTime /\ a.lo < b.lo))
    ELSE IF a.hi # b.hi THEN (b.hi = NoTime \/ (a.hi # NoTime /\ a.hi < b.hi))
    ELSE FALSE

\* ------------------------------------------------------------ the table
RowsOf(table) == {table[i] : i \in 1..Len(table)}
RowSet == RowsOf(rows)

\* session.get(entity_class, id): the row with that primary key, if stored
RowOf(table, id) == CHOOSE r \in RowsOf(table) : r.id = id
HasRow(id) == \E r \in RowSet : r.id = id
GetRow(id) == RowOf(rows, id)

\* uuid4(): an id no stored row has
NewId == Len(rows) + 1

\* Column defaults applied at flush: id default=uuid4, valid_time and
\* transaction_time server_default tstzrange(now(), NULL), branch default
\* "main", the nullable columns NULL.
DefaultOf(col) ==
    CASE col = "id" -> NewId
      [] col = "valid_time" -> TstzRange(now, NoTime)
      [] col = "transaction_time" -> TstzRange(now, NoTime)
      [] col = "deleted_at" -> NoTime
      [] col = "branch" -> "main"
      [] col = "parent_id" -> NoId
      [] col = "merge_from_branch" -> NoBranch
      [] col = "budget" -> 0
      [] OTHER -> "?"

NoUpdates == [x \in {} |-> NoId]

\* session.add(obj); session.flush(): INSERT with the defaults filled in
Flush(obj) ==
    [c \in Columns |-> IF c \in DOMAIN obj THEN obj[c] ELSE DefaultOf(c)]

Insert(table, obj) == Append(table, Flush(obj))

\* ------------------------------------------------------------- clone
\* Columns VersionableMixin.clone pops from the copied data.
Popped == {"id", "valid_time", "transaction_time"}

\* VersionableMixin.clone(**overrides): every column of self, overrides on
\* top, id / valid_time / transaction_time dropped; the new object gets
\* those from the column defaults when it is flushed.
Clone(self, overrides) ==
    LET data == [c \in Columns \cup DOMAIN overrides |->
                    IF c \in DOMAIN overrides THEN overrides[c] ELSE self[c]]
    IN  [c \in (DOMAIN data) \ Popped |-> data[c]]

\* --------------------------------------------------------------- reads
\* A lookup that also returns soft-deleted rows.
IsCurrentOrDeleted(r, t) == Contains(r.valid_time, t)

\* WHERE valid_time @> :t AND deleted_at IS NULL
IsCurrent(r, t) == Contains(r.valid_time, t) /\ r.deleted_at = NoTime

\* ORDER BY valid_time DESC LIMIT 1 over a set of candidate rows: the rows
\* the database may return (rows with equal ranges tie, and the database
\* returns any one of them).
TopByValidTime(cands) ==
    {r \in cands : \A q \in cands : ~RangeLess(r.valid_time, q.valid_time)}

\* The SELECT of _get_current_on_branch on a given table at a given
\* current_timestamp.
CurrentIn(table, t, root, branch) ==
    TopByValidTime({r \in RowsOf(table) :
        r.project_id = root /\ r.branch = branch /\ IsCurrent(r, t)})

\* UpdateVersionCommand._get_current / SoftDeleteCommand._get_current:
\* the same SELECT without the branch condition.
CurrentOfRoot(root) ==
    TopByValidTime({r \in RowSet : r.project_id = root /\ IsCurrent(r, now)})

\* BranchCommandABC._get_current_on_branch
CurrentOnBranch(root, branch) == CurrentIn(rows, now, root, branch)

\* BranchableService.get_current
get_current(root, branch) ==
    TopByValidTime({r \in RowSet :
        r.project_id = root /\ r.branch = branch
        /\ Contains(r.valid_time, now) /\ r.deleted_at = NoTime})

\* ------------------------------------------------------------- writes
\* VersionedCommandABC._close_version: UPDATE ... SET valid_time =
\* tstzrange(lower(valid_time), current_timestamp, '[)') WHERE id = :id
CloseVersion(table, id) ==
    [i \in 1..Len(table) |->
        IF table[i].id = id
        THEN [table[i] EXCEPT !["valid_time"] =
                 TstzRange(Lower(table[i].valid_time), now)]
        ELSE table[i]]

\* UpdateVersionCommand._close_version: the override whose body is `pass`.
CloseVersionStub(table, id) == table

\* A delete that removes the row instead of marking it.
HardDelete(table, id) == SelectSeq(table, LAMBDA r : r.id # id)

\* VersionableMixin.soft_delete on the row, then flush
MarkDeleted(table, id) ==
    [i \in 1..Len(table) |->
        IF table[i].id = id
        THEN [table[i] EXCEPT !["deleted_at"] = now]
        ELSE table[i]]

\* ------------------------------------------------------- command record
\* What is known of the command executed last: which command, how it ended
\* (ok, or which raise statement), its root, branch, source-branch and
\* to_version_id arguments, the rows its lookups selected (cur: current /
\* target-branch current, srcid: source-branch current, tgt: revert
\* target) and the id of the row it returned.  A command that fails before
\* it reads an argument records the argument it did read in its place.
Cmd(op, status, root, branch, src, to, cur, srcid, tgt, result) ==
    [op |-> op, status |-> status, root |-> root, branch |-> branch,
     src |-> src, to |-> to, cur |-> cur, srcid |-> srcid, tgt |-> tgt,
     result |-> result]

\* A command that raised (or found nothing to do): no row selected or made.
Failed(op, status, root, branch, src, to) ==
    Cmd(op, status, root, branch, src, to, NoId, NoId, NoId, NoId)

\* ------------------------------------------------ head command record
\* A version row is identified by (head_id, valid_from); NoPk stands for
\* a pk attribute that is None, NoHead for a head id that is None.
NoPk == <<>>
NoHead == "-"

\* The head command step taken last: execute or undo, of which command
\* object (its index in cmds), how it ended, and the version table as it
\* was before the step.
HStep(op, cmd, status) ==
    [op |-> op, cmd |-> cmd, status |-> status, before |-> versions]

\* ------------------------------------------------------- transactions
\* Two sessions that run update commands and one that reads.
WriterSessions == {"s1", "s2"}
ReaderSessions == {"s3"}
Sessions == WriterSessions \cup ReaderSessions

\* ------------------------------------------------- entity type names
\* A type name is a sequence of characters.  Project is the entity of the
\* rows table; its root field is the column project_id.
ProjectName == <<"P", "r", "o", "j", "e", "c", "t">>

\* The places that derive the root field name from the type name.
Sites == {"_root_field_name", "get_as_of", "create", "get_current",
          "create_root"}

Underived == <<"?">>

NoRootFields == [site \in Sites |-> Underived]

\* A session without a transaction in progress.
IdleTxn ==
    [pc |-> "idle", op |-> "none", ts |-> NoTime, branch |-> NoBranch,
     updates |-> NoUpdates, cur |-> NoId, new |-> <<>>, closed |-> <<>>,
     seen |-> {}]

Init ==
    /\ rows = <<>>
    /\ now = 1
    /\ last = Failed("init", "ok", "r1", "main", "main", NoId)
    /\ heads = {}
    /\ versions = {}
    /\ cmds = <<>>
    /\ hlast = HStep("init", 0, "ok")
    /\ txns = [s \in Sessions |-> IdleTxn]
    /\ entity_class = ProjectName
    /\ root_field = NoRootFields

\* A new transaction begins: current_timestamp advances.
Tick ==
    /\ now < MaxTime
    /\ now' = now + 1
    /\ last' = Failed("tick", "ok", "r1", "main", "main", NoId)
    /\ UNCHANGED rows

\* CreateVersionCommand.execute, called as BranchableService.create_root
\* does: entity_class(project_id=root, branch=branch, **data), add, flush.
CreateVersion(root, branch, name) ==
    /\ rows' = Insert(rows, [project_id |-> root, branch |-> branch,
                             name |-> name])
    /\ last' = Cmd("CreateVersion", "ok", root, branch, branch, NoId, NoId,
                   NoId, NoId, NewId)
    /\ UNCHANGED now

\* UpdateVersionCommand.execute
UpdateVersion(root, updates) ==
    /\ IF CurrentOfRoot(root) = {}
       THEN /\ last' = Failed("UpdateVersion", "not_found", root, "main",
                              "main", NoId)
            /\ UNCHANGED rows
       ELSE \E current \in CurrentOfRoot(root) :
            LET new_version == Clone(current, updates) IN
            /\ rows' = Insert(CloseVersionStub(rows, current.id), new_version)
            /\ last' = Cmd("UpdateVersion", "ok", root, current.branch,
                           current.branch, NoId, current.id, NoId, NoId, NewId)
    /\ UNCHANGED now

\* SoftDeleteCommand.execute: returns None when there is no current row.
SoftDelete(root) ==
    /\ IF CurrentOfRoot(root) = {}
       THEN /\ last' = Failed("SoftDelete", "none", root, "main", "main", NoId)
            /\ UNCHANGED rows
       ELSE \E current \in CurrentOfRoot(root) :
            /\ rows' = MarkDeleted(rows, current.id)
            /\ last' = Cmd("SoftDelete", "ok", root, current.branch,
                           current.branch, NoId, current.id, NoId, NoId,
                           current.id)
    /\ UNCHANGED now

\* CreateBranchCommand.execute
CreateBranch(root, new_branch, from_branch) ==
    /\ IF CurrentOnBranch(root, from_branch) = {}
       THEN /\ last' = Failed("CreateBranch", "not_found", root, from_branch,
                              from_branch, NoId)
            /\ UNCHANGED rows
       ELSE \E source \in CurrentOnBranch(root, from_branch) :
            LET branched == Clone(source, [branch |-> new_branch,
                                           parent_id |-> source.id]) IN
            /\ rows' = Insert(rows, branched)
            /\ last' = Cmd("CreateBranch", "ok", root, new_branch,
                           from_branch, NoId, NoId, source.id, NoId, NewId)
    /\ UNCHANGED now

\* UpdateCommand.execute: current.clone(**updates, parent_id=current.id)
\* is a TypeError when updates itself names parent_id.
UpdateCommand(root, branch, updates) ==
    /\ IF CurrentOnBranch(root, branch) = {}
       THEN /\ last' = Failed("UpdateCommand", "not_found", root, branch,
                              branch, NoId)
            /\ UNCHANGED rows
       ELSE IF "parent_id" \in DOMAIN updates
       THEN /\ last' = Failed("UpdateCommand", "type_error", root, branch,
                              branch, NoId)
            /\ UNCHANGED rows
       ELSE \E current \in CurrentOnBranch(root, branch) :
            LET new_version ==
                    Clone(current, updates @@ [parent_id |-> current.id]) IN
            /\ rows' = Insert(CloseVersion(rows, current.id), new_version)
            /\ last' = Cmd("UpdateCommand", "ok", root, branch, branch, NoId,
                           current.id, NoId, NoId, NewId)
    /\ UNCHANGED now

\* MergeBranchCommand.execute
MergeBranch(root, source_branch, target_branch) ==
    /\ IF CurrentOnBranch(root, source_branch) = {}
       THEN /\ last' = Failed("MergeBranch", "source_not_found", root,
                              source_branch, source_branch, NoId)
            /\ UNCHANGED rows
       ELSE IF CurrentOnBranch(root, target_branch) = {}
       THEN /\ last' = Failed("MergeBranch", "target_not_found", root,
                              target_branch, source_branch, NoId)
            /\ UNCHANGED rows
       ELSE \E source \in CurrentOnBranch(root, source_branch),
               target \in CurrentOnBranch(root, target_branch) :
            LET merged == Clone(source,
                    [branch |-> target_branch, parent_id |-> target.id,
                     merge_from_branch |-> source_branch]) IN
            /\ rows' = Insert(CloseVersion(rows, target.id), merged)
            /\ last' = Cmd("MergeBranch", "ok", root, target_branch,
                           source_branch, NoId, target.id, source.id, NoId,
                           NewId)
    /\ UNCHANGED now

\* A revert that falls back to the current version when it has no parent.
RevertTargetIdOrCurrent(current, to_version_id) ==
    IF to_version_id # NoId THEN to_version_id
    ELSE IF current.parent_id # NoId THEN current.parent_id
    ELSE current.id

\* RevertCommand.execute, step 2: the id the target version is fetched by
\* (to_version_id = NoId is the omitted argument; NoId: nothing to fetch).
RevertTargetId(current, to_version_id) ==
    IF to_version_id # NoId THEN to_version_id
    ELSE IF current.parent_id # NoId THEN current.parent_id
    ELSE NoId

\* RevertCommand.execute
Revert(root, branch, to_version_id) ==
    /\ IF CurrentOnBranch(root, branch) = {}
       THEN /\ last' = Failed("Revert", "not_found", root, branch, branch,
                              to_version_id)
            /\ UNCHANGED rows
       ELSE \E current \in CurrentOnBranch(root, branch) :
            LET tid == RevertTargetId(current, to_version_id) IN
            IF ~HasRow(tid)
            THEN /\ last' = Failed("Revert", "no_target", root, branch,
                                   branch, to_version_id)
                 /\ UNCHANGED rows
            ELSE LET reverted == Clone(GetRow(tid),
                        [branch |-> branch, parent_id |-> current.id,
                         merge_from_branch |-> NoBranch]) IN
                 /\ rows' = Insert(CloseVersion(rows, current.id), reverted)
                 /\ last' = Cmd("Revert", "ok", root, branch, branch,
                                to_version_id, current.id, NoId, tid, NewId)
    /\ UNCHANGED now

\* ------------------------------------------------------------- inputs
\* The updates maps tried: maps over the business columns, and single-key
\* maps naming a column the entity has besides them.
BusinessUpdates == {NoUpdates, [name |-> "B"], [budget |-> 1]}

SystemUpdates ==
    {[branch |-> "feature"], [project_id |-> "r2"], [parent_id |-> 1]}

Updates == BusinessUpdates \cup SystemUpdates

VersionIds == 0..MaxRows

\* The table is kept to at most `limit` rows: a command that may insert is
\* tried only below the limit.
Bounded(limit, A) ==
    Len(rows) < limit /\ A /\ UNCHANGED <<heads, versions, cmds, hlast, txns, nvars>>

\* At most MaxDeleted rows are soft-deleted.
DeletedRows == {r \in RowSet : r.deleted_at # NoTime}

Next ==
    \/ Tick /\ UNCHANGED <<heads, versions, cmds, hlast, txns, nvars>>
    \/ \E r \in Roots :
          /\ Cardinality(DeletedRows) < MaxDeleted
          /\ SoftDelete(r)
          /\ UNCHANGED <<heads, versions, cmds, hlast, txns, nvars>>
    \/ \E r \in Roots, b \in Branches, n \in Names :
          Bounded(MaxRows, CreateVersion(r, b, n))
    \/ \E r \in Roots, u \in Updates :
          Bounded(MaxRows, UpdateVersion(r, u))
    \/ \E r \in Roots, nb \in Branches, fb \in Branches :
          Bounded(MaxRows, CreateBranch(r, nb, fb))
    \/ \E r \in Roots, b \in Branches, u \in Updates :
          Bounded(MaxRows, UpdateCommand(r, b, u))
    \/ \E r \in Roots, sb \in Branches, tb \in Branches :
          Bounded(MaxRows, MergeBranch(r, sb, tb))
    \/ \E r \in Roots, b \in Branches, v \in VersionIds :
          Bounded(MaxRows, Revert(r, b, v))

Spec == Init /\ [][Next]_vars

\* One root within one transaction, the branch commands only, up to
\* MaxDeepRows rows: the longer command sequences on a single entity.
NextDeep ==
    \/ \E b \in Branches, n \in Names :
          Bounded(MaxDeepRows, CreateVersion("r1", b, n))
    \/ \E nb \in Branches, fb \in Branches :
          Bounded(MaxDeepRows, CreateBranch("r1", nb, fb))
    \/ \E b \in Branches, n \in Names :
          Bounded(MaxDeepRows, UpdateCommand("r1", b, [name |-> n]))
    \/ \E sb \in Branches, tb \in Branches :
          Bounded(MaxDeepRows, MergeBranch("r1", sb, tb))
    \/ \E b \in Branches :
          Bounded(MaxDeepRows, Revert("r1", b, NoId))

SpecDeep == Init /\ [][NextDeep]_vars

\* ------------------------------------------------- TemporalService
\* TemporalService.get_all at current_timestamp t: WHERE valid_time @> t
\* AND deleted_at IS NULL (no ordering; offset 0 and a limit above the
\* table size return every matching row).
get_all(table, t) ==
    {r \in RowsOf(table) : Contains(r.valid_time, t) /\ r.deleted_at = NoTime}

\* The rows matched by the SELECT of TemporalService.get_as_of: root
\* equal, valid_time @> as_of, deleted_at IS NULL; no branch condition.
AsOfRows(table, root, as_of) ==
    {r \in RowsOf(table) :
        r.project_id = root /\ Contains(r.valid_time, as_of)
        /\ r.deleted_at = NoTime}

\* TemporalService.get_as_of: LIMIT 1 without ORDER BY, so any matching
\* row may be returned; NoId stands for None.  The set of ids the call
\* may return.
get_as_of(table, root, as_of) ==
    IF AsOfRows(table, root, as_of) = {}
    THEN {NoId}
    ELSE {r.id : r \in AsOfRows(table, root, as_of)}

\* TemporalService.create without a root id: the root is a fresh uuid4.
FreshRoots == {root \in Roots : \A r \in RowSet : r.project_id # root}

\* The life cycle of an entity behind TemporalService / UserService:
\* create, update (UpdateVersionCommand), soft_delete (SoftDeleteCommand),
\* each any number of times, on one branch.
NextTemporal ==
    \/ Tick /\ UNCHANGED <<heads, versions, cmds, hlast, txns, nvars>>
    \/ \E r \in FreshRoots, n \in Names :
          Bounded(MaxTemporalRows, CreateVersion(r, "main", n))
    \/ \E r \in Roots, u \in BusinessUpdates :
          Bounded(MaxTemporalRows, UpdateVersion(r, u))
    \/ \E r \in Roots :
          SoftDelete(r) /\ UNCHANGED <<heads, versions, cmds, hlast, txns, nvars>>

SpecTemporal == Init /\ [][NextTemporal]_vars

\* ====================================================================
\* Head / version entities (app/commands/department.py, user.py)
\* ====================================================================
\* A head row is its id.  A version row has the primary key (head_id,
\* valid_from), valid_to (NoTime for NULL: the current version) and the
\* state columns name and is_active.  CreateUserCommand /
\* UpdateUserCommand are the same code over User / UserVersion.  The
\* columns created_by_id and manager_id are left out: no command reads
\* them back, and no user head is modelled that a manager_id could name.
HeadIds == {"h1", "h2"}

Stamps == 1..MaxStamp

VersionColumns == {"head_id", "valid_from", "valid_to", "name", "is_active"}

\* exclude_fields of the execute methods
ExcludeFields == {"head_id", "valid_from", "valid_to"}

VersionPk(v) == <<v.head_id, v.valid_from>>

\* SELECT ... WHERE head_id = :id AND valid_to IS NULL ORDER BY valid_from
\* DESC LIMIT 1: the set holding the row returned, empty for None.
CurrentVersion(h) ==
    LET open == {v \in versions : v.head_id = h /\ v.valid_to = NoTime}
    IN  {v \in open : \A w \in open : w.valid_from <= v.valid_from}

\* The command object: its kind and target head, and the attributes the
\* execute method sets for undo.
HCmd(kind, head, created, prev, new) ==
    [kind |-> kind, head |-> head, created_head_id |-> created,
     previous_version_pk |-> prev, new_version_pk |-> new]

\* The version table after the flush of a closed current version and a
\* new version: UPDATE of the current row, then INSERT of the new row.
\* The set is empty when the INSERT violates the primary key.
Superseded(current, new_version, ts) ==
    LET closed == (versions \ {current})
                      \cup {[current EXCEPT !["valid_to"] = ts]}
    IN  IF \E v \in closed : VersionPk(v) = VersionPk(new_version)
        THEN {}
        ELSE {closed \cup {new_version}}

\* CreateDepartmentCommand.execute / CreateUserCommand.execute with the
\* head id given by the caller and is_active at its default: the flush of
\* the head raises when the id is taken, and created_head_id stays None.
CreateDepartmentExecute(h, name, ts) ==
    /\ IF h \in heads
       THEN /\ cmds' = Append(cmds, HCmd("create", h, NoHead, NoPk, NoPk))
            /\ hlast' = HStep("execute", Len(cmds) + 1, "integrity_error")
            /\ UNCHANGED <<heads, versions>>
       ELSE /\ heads' = heads \cup {h}
            /\ versions' = versions \cup
                  {[head_id |-> h, valid_from |-> ts, valid_to |-> NoTime,
                    name |-> name, is_active |-> TRUE]}
            /\ cmds' = Append(cmds, HCmd("create", h, h, NoPk, NoPk))
            /\ hlast' = HStep("execute", Len(cmds) + 1, "ok")

\* The body shared by UpdateDepartmentCommand.execute (new_data updated
\* with the changes) and DeleteDepartmentCommand.execute (new_data with
\* is_active = False): changes is the map laid over the copied columns.
SupersedeExecute(kind, h, changes, ts) ==
    /\ IF CurrentVersion(h) = {}
       THEN /\ cmds' = Append(cmds, HCmd(kind, h, NoHead, NoPk, NoPk))
            /\ hlast' = HStep("execute", Len(cmds) + 1, "not_found")
            /\ UNCHANGED <<heads, versions>>
       ELSE \E current_version \in CurrentVersion(h) :
            LET previous_version_pk == VersionPk(current_version)
                new_data == [c \in (VersionColumns \ ExcludeFields)
                                      \cup DOMAIN changes |->
                                IF c \in DOMAIN changes THEN changes[c]
                                ELSE current_version[c]]
                new_version == [c \in VersionColumns |->
                                   CASE c = "head_id" -> h
                                     [] c = "valid_from" -> ts
                                     [] c = "valid_to" -> NoTime
                                     [] OTHER -> new_data[c]]
                flushed == Superseded(current_version, new_version, ts)
            IN  IF flushed = {}
                THEN /\ cmds' = Append(cmds, HCmd(kind, h, NoHead,
                                                  previous_version_pk, NoPk))
                     /\ hlast' = HStep("execute", Len(cmds) + 1,
                                       "integrity_error")
                     /\ UNCHANGED <<heads, versions>>
                ELSE /\ versions' \in flushed
                     /\ cmds' = Append(cmds, HCmd(kind, h, NoHead,
                                                  previous_version_pk,
                                                  VersionPk(new_version)))
                     /\ hlast' = HStep("execute", Len(cmds) + 1, "ok")
                     /\ UNCHANGED heads

\* UpdateDepartmentCommand.execute / UpdateUserCommand.execute
UpdateDepartmentExecute(h, changes, ts) ==
    SupersedeExecute("update", h, changes, ts)

\* DeleteDepartmentCommand.execute
DeleteDepartmentExecute(h, ts) ==
    SupersedeExecute("delete", h, [is_active |-> FALSE], ts)

\* An undo of a creation that leaves the version rows behind.
DeleteHeadOnly(table, h) == table

\* DELETE FROM department WHERE id = :h as seen by the version table:
\* head_id is a foreign key ON DELETE CASCADE.
DeleteCascade(table, h) == {v \in table : v.head_id # h}

\* CreateDepartmentCommand.undo / CreateUserCommand.undo
CreateDepartmentUndo(k) ==
    /\ cmds[k].kind = "create"
    /\ IF cmds[k].created_head_id # NoHead
       THEN /\ heads' = heads \ {cmds[k].created_head_id}
            /\ versions' = DeleteCascade(versions, cmds[k].created_head_id)
       ELSE UNCHANGED <<heads, versions>>
    /\ hlast' = HStep("undo", k, "ok")
    /\ UNCHANGED cmds

\* An undo that deletes the new version and does not reopen the previous.
DeleteOnly(table, new_pk, prev_pk) ==
    {v \in table : VersionPk(v) # new_pk}

\* The two statements of the undo of an update or delete: DELETE the row
\* with the new pk, then UPDATE ... SET valid_to = NULL on the row with
\* the previous pk.
DeleteAndReopen(table, new_pk, prev_pk) ==
    {IF VersionPk(v) = prev_pk THEN [v EXCEPT !["valid_to"] = NoTime] ELSE v :
        v \in {w \in table : VersionPk(w) # new_pk}}

\* UpdateDepartmentCommand.undo / DeleteDepartmentCommand.undo /
\* UpdateUserCommand.undo: nothing is checked but that both pks are set.
UpdateDepartmentUndo(k) ==
    /\ cmds[k].kind \in {"update", "delete"}
    /\ IF cmds[k].new_version_pk # NoPk /\ cmds[k].previous_version_pk # NoPk
       THEN versions' = DeleteAndReopen(versions, cmds[k].new_version_pk,
                                        cmds[k].previous_version_pk)
       ELSE UNCHANGED versions
    /\ hlast' = HStep("undo", k, "ok")
    /\ UNCHANGED <<heads, cmds>>

\* The changes of an update: any business column of the version.
Changes == {[name |-> "B"], [is_active |-> FALSE], [name |-> "A"]}

\* Command objects are made up to MaxCmds; each may be undone at any
\* time, any number of times.  metadata.timestamp is the caller's.
NextHead ==
    \/ \E h \in HeadIds, n \in Names, ts \in Stamps :
          /\ Len(cmds) < MaxCmds
          /\ CreateDepartmentExecute(h, n, ts)
          /\ UNCHANGED <<rows, now, last, txns, nvars>>
    \/ \E h \in HeadIds, c \in Changes, ts \in Stamps :
          /\ Len(cmds) < MaxCmds
          /\ UpdateDepartmentExecute(h, c, ts)
          /\ UNCHANGED <<rows, now, last, txns, nvars>>
    \/ \E h \in HeadIds, ts \in Stamps :
          /\ Len(cmds) < MaxCmds
          /\ DeleteDepartmentExecute(h, ts)
          /\ UNCHANGED <<rows, now, last, txns, nvars>>
    \/ \E k \in 1..Len(cmds) :
          CreateDepartmentUndo(k) /\ UNCHANGED <<rows, now, last, txns, nvars>>
    \/ \E k \in 1..Len(cmds) :
          UpdateDepartmentUndo(k) /\ UNCHANGED <<rows, now, last, txns, nvars>>

SpecHead == Init /\ [][NextHead]_allvars

\* ====================================================================
\* Concurrent sessions
\* ====================================================================
\* Each session runs one operation at a time inside one database
\* transaction on the projects table, at PostgreSQL's default isolation
\* level READ COMMITTED: a statement sees the rows committed before it
\* starts, current_timestamp is the start time of the transaction, and an
\* UPDATE of a row waits while another transaction holds an uncommitted
\* UPDATE of that row, then applies to the committed row.  rows is the
\* committed table; the writes of a transaction in progress are kept in
\* its record (closed, new) until it commits.  The operations are
\* UpdateCommand.execute and BranchableService.get_current on root r1.
\* The steps of a session: begin, read (the SELECT and, for the command,
\* the clone), close (_close_version), insert (add and flush of the new
\* version), commit or rollback.
CloseVersionAt(table, id, t) ==
    [i \in 1..Len(table) |->
        IF table[i].id = id
        THEN [table[i] EXCEPT !["valid_time"] =
                 TstzRange(Lower(table[i].valid_time), t)]
        ELSE table[i]]

\* The row stored for obj by a transaction whose current_timestamp is t.
FlushAt(obj, id, t) ==
    [c \in Columns |->
        IF c \in DOMAIN obj THEN obj[c]
        ELSE IF c = "id" THEN id
        ELSE IF c \in {"valid_time", "transaction_time"}
             THEN TstzRange(t, NoTime)
        ELSE DefaultOf(c)]

\* The rows that satisfy the WHERE clause of BranchableService.get_current
\* at current_timestamp t.
CurrentRowsAt(table, t, root, branch) ==
    {r \in RowsOf(table) :
        r.project_id = root /\ r.branch = branch
        /\ Contains(r.valid_time, t) /\ r.deleted_at = NoTime}

Writers == {s \in Sessions : txns[s].op = "UpdateCommand"}

\* Another transaction holds an uncommitted UPDATE of the row.
RowLocked(s, id) ==
    \E o \in Sessions \ {s} :
        txns[o].closed # <<>> /\ txns[o].closed.id = id

\* The session begins a transaction for an operation.
TxnBegin(s, op, branch, updates) ==
    /\ txns[s].pc = "idle"
    /\ op = "UpdateCommand" =>
          Len(rows) + Cardinality(Writers) < MaxTxnRows
    /\ txns' = [txns EXCEPT ![s] =
                  [IdleTxn EXCEPT !.pc = "read", !.op = op, !.ts = now,
                                  !.branch = branch, !.updates = updates]]
    /\ UNCHANGED <<rows, now, last>>

\* UpdateCommand.execute up to the clone: the SELECT of
\* _get_current_on_branch, ValueError when it finds nothing.
\* BranchableService.get_current: the SELECT; seen is the set of rows
\* its WHERE clause matches.
TxnRead(s) ==
    /\ txns[s].pc = "read"
    /\ LET t == txns[s] IN
       IF t.op = "get_current"
       THEN txns' = [txns EXCEPT ![s].pc = "commit",
                        ![s].seen = {r.id : r \in
                            CurrentRowsAt(rows, t.ts, "r1", t.branch)}]
       ELSE IF CurrentIn(rows, t.ts, "r1", t.branch) = {}
       THEN txns' = [txns EXCEPT ![s].pc = "failed"]
       ELSE \E current \in CurrentIn(rows, t.ts, "r1", t.branch) :
            txns' = [txns EXCEPT ![s].pc = "close", ![s].cur = current.id,
                        ![s].new = Clone(current,
                            t.updates @@ [parent_id |-> current.id])]
    /\ UNCHANGED <<rows, now, last>>

\* A close that is committed on its own.
TxnCloseCommitted(s) ==
    /\ txns[s].pc = "close"
    /\ ~RowLocked(s, txns[s].cur)
    /\ rows' = CloseVersionAt(rows, txns[s].cur, txns[s].ts)
    /\ txns' = [txns EXCEPT ![s].pc = "insert"]
    /\ UNCHANGED <<now, last>>

\* _close_version inside the transaction: the UPDATE and the flush; the
\* row stays locked and the new range uncommitted.
TxnClose(s) ==
    /\ txns[s].pc = "close"
    /\ ~RowLocked(s, txns[s].cur)
    /\ txns' = [txns EXCEPT ![s].pc = "insert",
                   ![s].closed = [id |-> txns[s].cur,
                                  valid_time |-> TstzRange(
                                      Lower(GetRow(txns[s].cur).valid_time),
                                      txns[s].ts)]]
    /\ UNCHANGED <<rows, now, last>>

\* session.add(new_version) and the flush: the INSERT is done, or the
\* flush raises (a constraint of the table rejects the row, the
\* connection is lost, the task is cancelled).
TxnInsert(s) ==
    /\ txns[s].pc = "insert"
    /\ \E done \in BOOLEAN :
          txns' = [txns EXCEPT ![s].pc = IF done THEN "commit" ELSE "failed"]
    /\ UNCHANGED <<rows, now, last>>

\* The operation returned: the transaction commits its writes.
TxnCommit(s) ==
    /\ txns[s].pc = "commit"
    /\ LET t == txns[s] IN
       rows' = IF t.op = "UpdateCommand"
               THEN Append(CloseVersionAt(rows, t.closed.id, t.ts),
                           FlushAt(t.new, Len(rows) + 1, t.ts))
               ELSE rows
    /\ txns' = [txns EXCEPT ![s] = IdleTxn]
    /\ last' = LET t == txns[s] IN
               IF t.op = "UpdateCommand"
               THEN Cmd("UpdateCommand", "ok", "r1", t.branch, t.branch,
                        NoId, t.cur, NoId, NoId, Len(rows) + 1)
               ELSE Failed("get_current", "ok", "r1", t.branch, t.branch,
                           NoId)
    /\ UNCHANGED now

\* The operation raised (ValueError of the lookup, or the error of the
\* flush after the close): the transaction is rolled back and its
\* writes are discarded.
TxnRollback(s) ==
    /\ txns[s].pc = "failed"
    /\ txns' = [txns EXCEPT ![s] = IdleTxn]
    /\ last' = LET t == txns[s] IN
               Cmd("UpdateCommand",
                   IF t.closed = <<>> THEN "not_found" ELSE "flush_error",
                   "r1", t.branch, t.branch, NoId, t.cur, NoId, NoId, NoId)
    /\ UNCHANGED <<rows, now>>

\* Root r1 with a current snapshot on main, created at time 1 by
\* create_root; it has no snapshot on feature.
InitTxn ==
    /\ now = 1
    /\ rows = <<FlushAt([project_id |-> "r1", branch |-> "main",
                         name |-> "A"], 1, 1)>>
    /\ last = Failed("init", "ok", "r1", "main", "main", NoId)
    /\ heads = {}
    /\ versions = {}
    /\ cmds = <<>>
    /\ hlast = HStep("init", 0, "ok")
    /\ txns = [s \in Sessions |-> IdleTxn]
    /\ entity_class = ProjectName
    /\ root_field = NoRootFields

NextTxn ==
    \/ Tick /\ UNCHANGED <<heads, versions, cmds, hlast, txns, nvars>>
    \/ \E s \in WriterSessions, b \in Branches, n \in Names :
          TxnBegin(s, "UpdateCommand", b, [name |-> n]) /\ UNCHANGED <<hvars, nvars>>
    \/ \E s \in ReaderSessions, b \in Branches :
          TxnBegin(s, "get_current", b, NoUpdates) /\ UNCHANGED <<hvars, nvars>>
    \/ \E s \in Sessions : TxnRead(s) /\ UNCHANGED <<hvars, nvars>>
    \/ \E s \in Sessions : TxnClose(s) /\ UNCHANGED <<hvars, nvars>>
    \/ \E s \in Sessions : TxnInsert(s) /\ UNCHANGED <<hvars, nvars>>
    \/ \E s \in Sessions : TxnCommit(s) /\ UNCHANGED <<hvars, nvars>>
    \/ \E s \in Sessions : TxnRollback(s) /\ UNCHANGED <<hvars, nvars>>

SpecTxn == InitTxn /\ [][NextTxn]_allvars

\* ====================================================================
\* Properties
\* ====================================================================
\* The current rows of (root, branch) in a table, in the words of the
\* glossary: valid time open-ended and not soft-deleted.
Live(r) == OpenEnded(r.valid_time) /\ r.deleted_at = NoTime

LiveRows(table, root, branch) ==
    {r \in RowsOf(table) : r.project_id = root /\ r.branch = branch /\ Live(r)}

LiveOfRoot(table, root) ==
    {r \in RowsOf(table) : r.project_id = root /\ Live(r)}

SameBusiness(a, b) == \A c \in BusinessColumns : a[c] = b[c]

\* n has c's business fields with the updates applied on top
Overridden(c, updates, n) ==
    \A col \in BusinessColumns :
        n[col] = IF col \in DOMAIN updates THEN updates[col] ELSE c[col]

Ran(op) == last'.op = op /\ last'.status = "ok"

\* C1: every (root, branch) has at most one row with an open-ended
\* valid_time and deleted_at null, after any sequence of successful commands.
C1_AtMostOneCurrent ==
    \A r \in Roots, b \in Branches : Cardinality(LiveRows(rows, r, b)) <= 1

\* C2: UpdateVersionCommand with updates over the business fields returns a
\* new open-ended snapshot with the current fields overridden by the updates;
\* the superseded snapshot then has a non-null valid_time upper bound, the
\* root has exactly one open-ended row and one row more than before.
C2_UpdateVersionSupersedes ==
    [][\A r \in Roots, u \in BusinessUpdates :
        (UpdateVersion(r, u) /\ Ran("UpdateVersion")) =>
            LET c == RowOf(rows, last'.cur)
                n == RowOf(rows', last'.result)
            IN  /\ OpenEnded(n.valid_time)
                /\ Overridden(c, u, n)
                /\ Upper(RowOf(rows', c.id).valid_time) # NoTime
                /\ Cardinality({x \in RowsOf(rows') :
                       x.project_id = r /\ OpenEnded(x.valid_time)}) = 1
                /\ Len(rows') = Len(rows) + 1]_vars

\* C3: UpdateCommand(root, branch, updates) on current snapshot c returns a
\* new snapshot n with another id, on that branch, with parent_id = c.id and
\* c's business fields overridden by the updates; c is closed and n is the
\* only current row of (root, branch).
C3_UpdateOnBranch ==
    [][\A r \in Roots, b \in Branches, u \in Updates :
        (UpdateCommand(r, b, u) /\ Ran("UpdateCommand")) =>
            LET c == RowOf(rows, last'.cur)
                n == RowOf(rows', last'.result)
            IN  /\ n.id # c.id
                /\ n.branch = b
                /\ n.parent_id = c.id
                /\ Overridden(c, u, n)
                /\ ~OpenEnded(RowOf(rows', c.id).valid_time)
                /\ LiveRows(rows', r, b) = {n}]_vars

\* C4: MergeBranchCommand(root, source, target), source # target, with s
\* current on source and t current on target, returns m on target with
\* s's business fields, parent_id = t.id and merge_from_branch = source;
\* t is closed, m is the only current row on target, and s is still the
\* unchanged current row on source.
C4_MergeOverwrites ==
    [][(Ran("MergeBranch") /\ last'.src # last'.branch) =>
            LET s == RowOf(rows, last'.srcid)
                t == RowOf(rows, last'.cur)
                m == RowOf(rows', last'.result)
            IN  /\ m.branch = last'.branch
                /\ SameBusiness(m, s)
                /\ m.parent_id = t.id
                /\ m.merge_from_branch = last'.src
                /\ ~OpenEnded(RowOf(rows', t.id).valid_time)
                /\ LiveRows(rows', last'.root, last'.branch) = {m}
                /\ RowOf(rows', s.id) = s
                /\ s \in LiveRows(rows', last'.root, last'.src)]_vars

\* C5: RevertCommand(root, branch, to_version_id) on current snapshot c
\* returns r with the business fields of the target (the snapshot named by
\* to_version_id, or c's parent when it is omitted), on that branch, with
\* parent_id = c.id and no merge_from_branch; c is closed, r is the only
\* current row of (root, branch), and every earlier snapshot keeps its fields.
C5_RevertRestores ==
    [][Ran("Revert") =>
            LET c == RowOf(rows, last'.cur)
                g == RowOf(rows, last'.tgt)
                r == RowOf(rows', last'.result)
            IN  /\ g.id = IF last'.to # NoId THEN last'.to ELSE c.parent_id
                /\ SameBusiness(r, g)
                /\ r.branch = last'.branch
                /\ r.parent_id = c.id
                /\ r.merge_from_branch = NoBranch
                /\ ~OpenEnded(RowOf(rows', c.id).valid_time)
                /\ LiveRows(rows', last'.root, last'.branch) = {r}
                /\ \A x \in RowSet : SameBusiness(RowOf(rows', x.id), x)]_vars

\* C6: CreateBranchCommand(root, new_branch, from_branch) with s current on
\* from_branch returns an open-ended snapshot on new_branch of the same root
\* with parent_id = s.id and s's business fields; s is not closed and stays
\* the current row of (root, from_branch).
C6_CreateBranchCopies ==
    [][Ran("CreateBranch") =>
            LET s == RowOf(rows, last'.srcid)
                n == RowOf(rows', last'.result)
            IN  /\ n.branch = last'.branch
                /\ n.parent_id = s.id
                /\ n.project_id = last'.root
                /\ SameBusiness(n, s)
                /\ OpenEnded(n.valid_time)
                /\ RowOf(rows', s.id) = s
                /\ CurrentIn(rows', now', last'.root, last'.src) = {s}]_vars

\* C7: an UpdateCommand or RevertCommand on (root, b), and a
\* MergeBranchCommand into (root, b), add, close or modify no row of another
\* root or of another branch of the root.
C7_BranchIsolation ==
    [][(Ran("UpdateCommand") \/ Ran("Revert") \/ Ran("MergeBranch")) =>
            LET Other(x) == x.project_id # last'.root \/ x.branch # last'.branch
            IN  {x \in RowsOf(rows') : Other(x)} = {x \in RowSet : Other(x)}]_vars

C9_NotFoundChangesNothing ==
    [][LET NotFound(status) == last'.status = status /\ rows' = rows
           root == last'.root
       IN  /\ (last'.op = "UpdateVersion" /\ LiveOfRoot(rows, root) = {})
                  => NotFound("not_found")
           /\ (last'.op = "UpdateCommand"
                 /\ LiveRows(rows, root, last'.branch) = {})
                  => NotFound("not_found")
           /\ (last'.op = "CreateBranch" /\ LiveRows(rows, root, last'.src) = {})
                  => NotFound("not_found")
           /\ (last'.op = "MergeBranch" /\ LiveRows(rows, root, last'.src) = {})
                  => NotFound("source_not_found")
           /\ (last'.op = "MergeBranch"
                 /\ LiveRows(rows, root, last'.src) # {}
                 /\ LiveRows(rows, root, last'.branch) = {})
                  => NotFound("target_not_found")
           /\ (last'.op = "Revert" /\ LiveRows(rows, root, last'.branch) = {})
                  => NotFound("not_found")]_vars

C9_Witness ==
    /\ last.op = "MergeBranch" /\ last.status = "target_not_found"
    /\ LiveRows(rows, last.root, last.src) # {}
    /\ LiveRows(rows, last.root, last.branch) = {}

\* C10: RevertCommand on a (root, branch) whose current snapshot has no
\* parent_id, without to_version_id or with a to_version_id that names no
\* stored snapshot, fails with the nothing-to-revert-to error; the current
\* snapshot is not closed and no row is added.
C10_RevertNoTarget ==
    [][(/\ last'.op = "Revert"
        /\ LiveRows(rows, last'.root, last'.branch) # {}
        /\ \A c \in LiveRows(rows, last'.root, last'.branch) :
               c.parent_id = NoId
        /\ (last'.to = NoId \/ ~HasRow(last'.to)))
           => (last'.status = "no_target" /\ rows' = rows)]_vars

C10_Witness ==
    /\ last.op = "Revert" /\ last.status = "no_target" /\ last.to = NoId
    /\ LiveRows(rows, last.root, last.branch) # {}
    /\ \A c \in LiveRows(rows, last.root, last.branch) : c.parent_id = NoId

\* ------------------------------------------- TemporalService life cycle
\* C14: TemporalService.get_as_of(root, t) returns the snapshot that was
\* current at t, or nothing, and its answer for an instant t that has
\* passed stays the same whatever update or soft delete runs after t.
C14_AsOfStable ==
    [][\A root \in Roots :
          /\ \A t \in 1..(now - 1) :
                get_as_of(rows', root, t) = get_as_of(rows, root, t)
          /\ get_as_of(rows', root, now') \subseteq
                (IF LiveOfRoot(rows', root) = {}
                 THEN {NoId}
                 ELSE {r.id : r \in LiveOfRoot(rows', root)})]_vars

\* C15: SoftDelete executed twice in a row on a root that has rows never
\* raises; the second execution changes no row, and afterwards exactly
\* one open-ended snapshot of the root is stored and it carries
\* deleted_at.
C15_SoftDeleteIdempotent ==
    [][(/\ last.op = "SoftDelete" /\ last'.op = "SoftDelete"
        /\ last'.root = last.root
        /\ \E r \in RowSet : r.project_id = last.root)
           => LET open == {r \in RowsOf(rows') :
                              r.project_id = last.root
                              /\ OpenEnded(r.valid_time)}
              IN  /\ last'.status \in {"ok", "none"}
                  /\ rows' = rows
                  /\ Cardinality(open) = 1
                  /\ \A r \in open : r.deleted_at # NoTime]_vars

\* C16: SoftDelete on a root of which no snapshot was ever stored fails
\* with the not-found error instead of returning normally, and changes
\* no row.
C16_SoftDeleteNeverCreated ==
    [][(/\ last'.op = "SoftDelete"
        /\ \A r \in RowSet : r.project_id # last'.root)
           => (last'.status = "not_found" /\ rows' = rows)]_vars

\* C17: after a successful soft delete of a root, whatever creates and
\* updates came before, get_all returns no snapshot of that root and the
\* current lookup of the root finds nothing, while the deleted row is
\* still stored with deleted_at set.
C17_DeletedNotListed ==
    [][Ran("SoftDelete")
           => /\ \A r \in get_all(rows', now') : r.project_id # last'.root
              /\ TopByValidTime({r \in RowsOf(rows') :
                     r.project_id = last'.root /\ IsCurrent(r, now')}) = {}
              /\ \E r \in RowsOf(rows') :
                     r.id = last'.result /\ r.deleted_at # NoTime]_vars

\* ------------------------------------------------ head command undo
\* C18: UpdateDepartmentCommand / UpdateUserCommand execute followed
\* directly by undo of the same command restores the version rows exactly
\* to what they were before execute: the new version is gone and the
\* version that was current is stored again with valid_to null and its
\* other fields unchanged.
C18_UndoUpdateRoundTrip ==
    [][(/\ hlast.op = "execute" /\ hlast.status = "ok"
        /\ hlast'.op = "undo" /\ hlast'.cmd = hlast.cmd
        /\ cmds[hlast.cmd].kind = "update")
           => LET A == cmds[hlast.cmd] IN
              /\ versions' = hlast.before
              /\ \A v \in versions' : VersionPk(v) # A.new_version_pk
              /\ \E v \in versions' :
                    /\ VersionPk(v) = A.previous_version_pk
                    /\ v.valid_to = NoTime
                    /\ v \in hlast.before]_hvars

\* The last command was an update that closed a version and stored a new
\* one, and its undo has removed the new version and reopened the old.
C18_Witness ==
    /\ hlast.op = "undo" /\ hlast.cmd = Len(cmds)
    /\ cmds[hlast.cmd].kind = "update"
    /\ cmds[hlast.cmd].new_version_pk # NoPk
    /\ \E v \in hlast.before :
          VersionPk(v) = cmds[hlast.cmd].new_version_pk /\ v.valid_to = NoTime
    /\ \E v \in hlast.before :
          VersionPk(v) = cmds[hlast.cmd].previous_version_pk
          /\ v.valid_to # NoTime
    /\ \A v \in versions : VersionPk(v) # cmds[hlast.cmd].new_version_pk
    /\ \E v \in versions :
          VersionPk(v) = cmds[hlast.cmd].previous_version_pk
          /\ v.valid_to = NoTime

C20_UndoAfterInterleavingRejected ==
    [][(/\ hlast'.op = "undo"
        /\ cmds[hlast'.cmd].kind \in {"update", "delete"}
        /\ cmds[hlast'.cmd].new_version_pk # NoPk
        /\ \E j \in (hlast'.cmd + 1)..Len(cmds) :
              /\ cmds[j].head = cmds[hlast'.cmd].head
              /\ cmds[j].kind \in {"update", "delete"}
              /\ cmds[j].new_version_pk # NoPk)
           => (hlast'.status = "validation_error"
               /\ versions' = versions)]_hvars

\* ------------------------------------------------- concurrent sessions
\* C11: two update commands on the same (root, branch) that run
\* concurrently in separate transactions never commit a table in which
\* both have stored a successor of the same snapshot: no two snapshots of
\* one (root, branch) name the same parent.
C11_NoLostUpdate ==
    \A a \in RowSet, b \in RowSet :
        (/\ a.id # b.id
         /\ a.project_id = b.project_id /\ a.branch = b.branch
         /\ a.parent_id # NoId)
            => a.parent_id # b.parent_id

C13_ReaderSeesOne ==
    [][\A s \in Sessions :
          (/\ txns[s].op = "get_current"
           /\ txns[s].pc = "read" /\ txns'[s].pc = "commit"
           /\ \E w \in Sessions :
                 /\ txns[w].op = "UpdateCommand"
                 /\ txns[w].branch = txns[s].branch
                 /\ txns[w].pc \in {"close", "insert", "commit"})
              => Cardinality(txns'[s].seen) = 1]_allvars

\* ------------------------------------------------ lineage and provenance
\* C21: every snapshot with a non-null parent_id references a stored
\* snapshot that has the same root id, after every sequence of commands,
\* RevertCommand with an arbitrary to_version_id included.
C21_ParentSameRoot ==
    \A r \in RowSet :
        r.parent_id # NoId =>
            /\ HasRow(r.parent_id)
            /\ RowOf(rows, r.parent_id).project_id = r.project_id

\* C22: a snapshot has a non-null merge_from_branch only if a
\* MergeBranchCommand produced it, and then it names the merge's source
\* branch; the snapshots produced by CreateVersion, UpdateCommand,
\* CreateBranch and Revert have merge_from_branch null, also when they are
\* cloned from the result of a merge.
C22_MergeProvenance ==
    [][/\ Ran("MergeBranch") =>
             RowOf(rows', last'.result).merge_from_branch = last'.src
       /\ (\/ Ran("CreateVersion") \/ Ran("UpdateCommand")
           \/ Ran("CreateBranch") \/ Ran("Revert")) =>
             RowOf(rows', last'.result).merge_from_branch = NoBranch]_vars

\* ------------------------------------------- updates naming system columns
\* Updates maps that name the columns an update is not meant to set: the
\* primary key, the two temporal ranges, the root id and the branch.
KeyUpdates ==
    {[id |-> 1], [valid_time |-> TstzRange(1, 2)],
     [transaction_time |-> TstzRange(1, 2)],
     [project_id |-> "r2"], [branch |-> "feature"], [name |-> "B"]}

\* The two update commands with these maps.
NextUpdate ==
    \/ Tick /\ UNCHANGED <<heads, versions, cmds, hlast, txns, nvars>>
    \/ \E r \in Roots, b \in Branches, n \in Names :
          Bounded(MaxRows, CreateVersion(r, b, n))
    \/ \E r \in Roots, u \in KeyUpdates :
          Bounded(MaxRows, UpdateVersion(r, u))
    \/ \E r \in Roots, b \in Branches, u \in KeyUpdates :
          Bounded(MaxRows, UpdateCommand(r, b, u))

SpecUpdate == Init /\ [][NextUpdate]_vars

\* C23: for every updates map given to UpdateVersionCommand or
\* UpdateCommand, the successor has the root id of the superseded snapshot
\* (and its branch, for UpdateCommand), an id no stored row had, and
\* valid_time and transaction_time open-ended from the current time: a
\* value for root id, id, valid_time or transaction_time in updates never
\* reaches the successor.
C23_SystemFieldsFresh ==
    [][(Ran("UpdateVersion") \/ Ran("UpdateCommand")) =>
            LET c == RowOf(rows, last'.cur)
                n == rows'[Len(rows')]
            IN  /\ Len(rows') = Len(rows) + 1
                /\ n.project_id = c.project_id
                /\ Ran("UpdateCommand") => n.branch = c.branch
                /\ ~HasRow(n.id)
                /\ n.valid_time = TstzRange(now, NoTime)
                /\ n.transaction_time = TstzRange(now, NoTime)]_vars

\* ------------------------------------------------------ service reads
\* UserService.get_by_email, its temporal conditions: WHERE
\* upper(valid_time) IS NULL AND deleted_at IS NULL (the email condition
\* picks the entity and is left to the caller).
get_by_email(table) ==
    {r \in RowsOf(table) : Upper(r.valid_time) = NoTime /\ r.deleted_at = NoTime}

C25_CreateBranchOntoCurrent ==
    [][(/\ last'.op = "CreateBranch"
        /\ Cardinality(LiveRows(rows, last'.root, last'.branch)) = 1)
          => \/ last'.status # "ok" /\ rows' = rows
             \/ Cardinality(LiveRows(rows', last'.root, last'.branch)) = 1]_vars

\* C29: on a branch whose current snapshot c has a parent, two consecutive
\* RevertCommands without to_version_id yield a current snapshot with c's
\* business fields, and both reverts are new forward snapshots: each adds
\* one row whose parent_id is the snapshot it superseded (the first
\* supersedes c, the second supersedes the first revert's result).
C29_DoubleRevert ==
    [][(/\ last.op = "Revert" /\ last.status = "ok" /\ last.to = NoId
        /\ last'.op = "Revert" /\ last'.to = NoId
        /\ last'.root = last.root /\ last'.branch = last.branch)
          => LET c  == RowOf(rows, last.cur)
                 r1 == RowOf(rows, last.result)
                 r2 == rows'[Len(rows')]
             IN  /\ last'.status = "ok"
                 /\ Len(rows') = Len(rows) + 1
                 /\ r1.id = Len(rows) /\ r1.parent_id = c.id
                 /\ r2.parent_id = r1.id
                 /\ SameBusiness(r2, c)
                 /\ CurrentIn(rows', now, last'.root, last'.branch) = {r2}]_vars

\* ====================================================================
\* User preferences (app/commands/user_preference.py)
\* ====================================================================
\* A preference head and its versions are kept in the same two tables as
\* the department heads, under ids of their own; a preference version has
\* the column theme for its state.
PreferenceIds == {"p1"}

Themes == {"light", "dark"}

\* UserPreferenceService.get_my_preference for a user without a
\* preference: the head and its first version (theme "light") are stored
\* and committed; ts is the date the service passes as valid_from.
GetMyPreference(p, ts) ==
    /\ p \notin heads
    /\ heads' = heads \cup {p}
    /\ versions' = versions \cup
          {[head_id |-> p, valid_from |-> ts, valid_to |-> NoTime,
            theme |-> "light"]}
    /\ hlast' = HStep("get_my_preference", 0, "ok")
    /\ UNCHANGED cmds

\* UpdateUserPreferenceCommand.execute: the current version, when there is
\* one, is closed at the command's timestamp; a new version is stored in
\* either case.  The flush raises when the head is not stored (foreign
\* key) or the new primary key is taken.
UpdateUserPreferenceExecute(h, theme, ts) ==
    LET new_version == [head_id |-> h, valid_from |-> ts,
                        valid_to |-> NoTime, theme |-> theme]
    IN  IF CurrentVersion(h) = {}
        THEN IF h \notin heads
                  \/ \E v \in versions : VersionPk(v) = VersionPk(new_version)
             THEN /\ cmds' = Append(cmds, HCmd("preference", h, NoHead,
                                               NoPk, NoPk))
                  /\ hlast' = HStep("execute", Len(cmds) + 1,
                                    "integrity_error")
                  /\ UNCHANGED <<heads, versions>>
             ELSE /\ versions' = versions \cup {new_version}
                  /\ cmds' = Append(cmds, HCmd("preference", h, NoHead, NoPk,
                                               VersionPk(new_version)))
                  /\ hlast' = HStep("execute", Len(cmds) + 1, "ok")
                  /\ UNCHANGED heads
        ELSE \E current_version \in CurrentVersion(h) :
             LET previous_version_pk == VersionPk(current_version)
                 flushed == Superseded(current_version, new_version, ts)
             IN  IF flushed = {}
                 THEN /\ cmds' = Append(cmds, HCmd("preference", h, NoHead,
                                                   previous_version_pk, NoPk))
                      /\ hlast' = HStep("execute", Len(cmds) + 1,
                                        "integrity_error")
                      /\ UNCHANGED <<heads, versions>>
                 ELSE /\ versions' \in flushed
                      /\ cmds' = Append(cmds, HCmd("preference", h, NoHead,
                                                   previous_version_pk,
                                                   VersionPk(new_version)))
                      /\ hlast' = HStep("execute", Len(cmds) + 1, "ok")
                      /\ UNCHANGED heads

\* UpdateUserPreferenceCommand.undo: the DELETE runs when new_version_pk
\* is set and the UPDATE when previous_version_pk is set, each on its own
\* (no stored row has the primary key NoPk).
UpdateUserPreferenceUndo(k) ==
    /\ cmds[k].kind = "preference"
    /\ versions' = DeleteAndReopen(versions, cmds[k].new_version_pk,
                                   cmds[k].previous_version_pk)
    /\ hlast' = HStep("undo", k, "ok")
    /\ UNCHANGED <<heads, cmds>>

\* The commands of all head / version entities together.
NextHeadAll ==
    \/ NextHead
    \/ \E p \in PreferenceIds, ts \in Stamps :
          GetMyPreference(p, ts) /\ UNCHANGED <<rows, now, last, txns, nvars>>
    \/ \E p \in PreferenceIds, th \in Themes, ts \in Stamps :
          /\ Len(cmds) < MaxCmds
          /\ UpdateUserPreferenceExecute(p, th, ts)
          /\ UNCHANGED <<rows, now, last, txns, nvars>>
    \/ \E k \in 1..Len(cmds) :
          UpdateUserPreferenceUndo(k) /\ UNCHANGED <<rows, now, last, txns, nvars>>

SpecHeadAll == Init /\ [][NextHeadAll]_allvars

\* ------------------------------------------------ head version chains
VersionsOf(h) == {v \in versions : v.head_id = h}

AllHeadIds == HeadIds \cup PreferenceIds

\* C26: for every head (user, department, user preference), after any
\* sequence of successful create / update / delete commands and undo
\* calls in any order, at most one version row of the head has valid_to
\* null.
C26_AtMostOneOpenVersion ==
    \A h \in AllHeadIds :
        Cardinality({v \in VersionsOf(h) : v.valid_to = NoTime}) <= 1

\* C30: every version row closed by UpdateUserCommand,
\* UpdateDepartmentCommand, DeleteDepartmentCommand or
\* UpdateUserPreferenceCommand has valid_from <= valid_to, whatever
\* timestamp the caller supplies, one earlier than or equal to the
\* valid_from of the version being closed included.
C30_ClosedVersionOrdered ==
    [][(/\ hlast'.op = "execute" /\ hlast'.status = "ok"
        /\ cmds'[hlast'.cmd].previous_version_pk # NoPk)
          => \A v \in versions' :
                VersionPk(v) = cmds'[hlast'.cmd].previous_version_pk
                   => v.valid_to # NoTime /\ v.valid_from <= v.valid_to]_hvars

\* The versions of head h in a table are a chain: a version that is
\* closed or has a later version ends where the next version starts.
Contiguous(table, h) ==
    \A v \in {x \in table : x.head_id = h} :
        LET later == {w \in table :
                         w.head_id = h /\ w.valid_from > v.valid_from}
            next == {w \in later : \A x \in later : w.valid_from <= x.valid_from}
        IN  (v.valid_to # NoTime \/ later # {}) =>
                \E w \in next : v.valid_to = w.valid_from

\* C27: UpdateUserCommand, UpdateDepartmentCommand and
\* DeleteDepartmentCommand executed with timestamp T set the superseded
\* version's valid_to to T and create the successor with valid_from = T
\* and valid_to null, so that the versions of the head form a chain in
\* which each closed version's valid_to is its successor's valid_from (no
\* gap, no overlap).
C27_ContiguousHistory ==
    [][(/\ hlast'.op = "execute" /\ hlast'.status = "ok"
        /\ cmds'[hlast'.cmd].kind \in {"update", "delete"})
          => LET A == cmds'[hlast'.cmd]
                 T == A.new_version_pk[2]
             IN  /\ \E v \in versions' :
                       VersionPk(v) = A.previous_version_pk /\ v.valid_to = T
                 /\ \E w \in versions' :
                       VersionPk(w) = A.new_version_pk /\ w.valid_to = NoTime
                 /\ Contiguous(versions', A.head)]_hvars

\* ====================================================================
\* Root field names
\* ====================================================================
\* str.lower() on the letters the type names are written with
LowerChar(c) ==
    CASE c = "B" -> "b" [] c = "E" -> "e" [] c = "I" -> "i"
      [] c = "N" -> "n" [] c = "O" -> "o" [] c = "P" -> "p"
      [] c = "R" -> "r" [] c = "S" -> "s" [] c = "U" -> "u"
      [] c = "V" -> "v" [] c = "W" -> "w" [] OTHER -> c

lower(s) == [i \in 1..Len(s) |-> LowerChar(s[i])]

\* s.endswith(suffix)
endswith(s, suffix) ==
    /\ Len(s) >= Len(suffix)
    /\ SubSeq(s, Len(s) - Len(suffix) + 1, Len(s)) = suffix

\* s[:-n]: s without its last n characters, empty when s is shorter
DropLast(s, n) == SubSeq(s, 1, IF Len(s) > n THEN Len(s) - n ELSE 0)

VersionSuffix == <<"v", "e", "r", "s", "i", "o", "n">>

IdSuffix == <<"_", "i", "d">>

\* VersionedCommandABC._root_field_name
root_field_name(name) ==
    LET class_name == lower(name)
        stripped == IF endswith(class_name, VersionSuffix)
                    THEN DropLast(class_name, 7)
                    ELSE class_name
    IN  stripped \o IdSuffix

\* A service that appends "_id" to the lower-cased name and strips nothing.
TemporalRootFieldUnstripped(name) == lower(name) \o IdSuffix

\* TemporalService.get_as_of / TemporalService.create: root_field is the
\* lower-cased name with "_id", replaced when the lower-cased name ends
\* with "version".
TemporalRootField(name) ==
    LET root_field0 == lower(name) \o IdSuffix
    IN  IF endswith(lower(name), VersionSuffix)
        THEN DropLast(lower(name), 7) \o IdSuffix
        ELSE root_field0

\* BranchableService.get_current / BranchableService.create_root
BranchableRootField(name) ==
    LET class_name == lower(name)
        stripped == IF endswith(class_name, VersionSuffix)
                    THEN DropLast(class_name, 7)
                    ELSE class_name
    IN  stripped \o IdSuffix

\* The type names tried: a stem followed by an ending, the empty name
\* left out.
Stems ==
    {<<>>, <<"U", "s", "e", "r">>, <<"W", "B", "E">>, ProjectName,
     <<"V", "e", "r", "s", "i", "o", "n">>}

Endings ==
    {<<>>, <<"V", "e", "r", "s", "i", "o", "n">>, VersionSuffix,
     <<"V", "E", "R", "S", "I", "O", "N">>,
     <<"V", "e", "r", "s", "i", "o", "n", "s">>,
     <<"S", "n", "a", "p", "s", "h", "o", "t">>,
     <<"e", "r", "s", "i", "o", "n">>,
     <<"V", "e", "r", "s", "i", "o", "n", "_">>}

TypeNames == {st \o en : st \in Stems, en \in Endings} \ {<<>>}

\* A code site derives the root field name of the entity class it has.
Derive(site, name) ==
    /\ root_field' = [root_field EXCEPT ![site] = name]
    /\ UNCHANGED <<entity_class, allvars>>

InitRootField ==
    /\ rows = <<>>
    /\ now = 1
    /\ last = Failed("init", "ok", "r1", "main", "main", NoId)
    /\ heads = {}
    /\ versions = {}
    /\ cmds = <<>>
    /\ hlast = HStep("init", 0, "ok")
    /\ txns = [s \in Sessions |-> IdleTxn]
    /\ entity_class \in TypeNames
    /\ root_field = NoRootFields

NextRootField ==
    \/ Derive("_root_field_name", root_field_name(entity_class))
    \/ Derive("get_as_of", TemporalRootField(entity_class))
    \/ Derive("create", TemporalRootField(entity_class))
    \/ Derive("get_current", BranchableRootField(entity_class))
    \/ Derive("create_root", BranchableRootField(entity_class))

SpecRootField == InitRootField /\ [][NextRootField]_<<allvars, nvars>>

\* The name the glossary gives: the lower-cased type name, one trailing
\* "version" removed when there is one, followed by "_id".
ExpectedRootField(name) ==
    LET l == lower(name)
        stems == {SubSeq(l, 1, k) : k \in 0..Len(l)}
        versioned == {st \in stems : st \o VersionSuffix = l}
    IN  IF versioned = {} THEN l \o IdSuffix
        ELSE (CHOOSE st \in versioned : TRUE) \o IdSuffix

====
